---- MODULE Spec2Model ----
(***************************************************************************)
(* BarberAI chat window (src/app/components/ChatWindow.tsx): the           *)
(* conversation state machine (booking and reschedule flows), the slot     *)
(* generator, the appointment store and the reminder check.                *)
(*                                                                         *)
(* Text is a sequence of UTF-16 code units (numbers), so that trimming,    *)
(* lower-casing, keyword search and digit extraction are computed as the   *)
(* code computes them.  Time is counted in whole hours since a Sunday      *)
(* 00:00 local time: every slot lies on a full hour, and the comparisons   *)
(* slot > now and 0 < slot - now <= 24h give the same answer for every     *)
(* instant inside an hour as for the start of that hour.                   *)
(***************************************************************************)
EXTENDS Integers, Sequences, FiniteSets, TLC

VARIABLES
    messages,        \* useState<Message[]>: the transcript
    appointments,    \* useState<Appointment[]>: the appointment store
    bookingState,    \* useState<BookingState | null>
    rescheduleState, \* useState<RescheduleState | null>
    pending,         \* setTimeout callbacks not yet fired, oldest first
    now,             \* the wall clock (Date.now()), in hours
    script,          \* what the user may still type: one set of texts per submission
    checked,         \* history: the list the reminder check last ran on, and when
    reminderLog,     \* history: one <<appointment id, slot iso>> per reminder message
    gen              \* a stand-alone call of the slot generator (SpecGen only)

vars == <<messages, appointments, bookingState, rescheduleState, pending, now,
          script, checked, reminderLog, gen>>

Null == [null |-> TRUE]            \* null
Undefined == [undefined |-> TRUE]  \* undefined
NaN == [nan |-> TRUE, value |-> 0]  \* Number.NaN
Num(n) == [nan |-> FALSE, value |-> n]
NoService == "undefined"            \* undefined, where a ServiceId is expected

-----------------------------------------------------------------------------
(* Configuration *)

WORKING_HOURS == [open |-> 10, close |-> 20, closedOn |-> 0]

SERVICES == <<"haircut", "beard", "combo", "facial", "dye", "kids">>

\* in the order of the object literal, which Object.entries follows
SERVICE_KEYWORDS ==
    << [id |-> "haircut", keywords |-> { <<104,97,105,114,99,117,116>>, <<99,117,116>>, <<102,97,100,101>>,
                                         <<1602,1589>>, <<1581,1604,1575,1602,1577>>, <<1588,1593,1585>> }],
       [id |-> "beard",   keywords |-> { <<98,101,97,114,100>>, <<115,104,97,118,101>>,
                                         <<1604,1581,1610,1577>>, <<1584,1602,1606>> }],
       [id |-> "combo",   keywords |-> { <<99,111,109,98,111>>, <<98,111,116,104>>, <<116,111,103,101,116,104,101,114>>,
                                         <<1603,1575,1605,1604>>, <<1576,1575,1602,1577>>, <<1603,1608,1605,1576,1608>> }],
       [id |-> "facial",  keywords |-> { <<102,97,99,105,97,108>>, <<115,107,105,110>>,
                                         <<1608,1580,1607>>, <<1576,1588,1585,1577>> }],
       [id |-> "dye",     keywords |-> { <<100,121,101>>, <<99,111,108,111,114>>,
                                         <<1589,1576,1594,1577>>, <<1604,1608,1606>> }],
       [id |-> "kids",    keywords |-> { <<107,105,100>>, <<99,104,105,108,100>>, <<98,111,121>>,
                                         <<1591,1601,1604>>, <<1608,1604,1583>> }] >>

MaxAttempts == 500   \* the loop's cap on attempts
SlotCount == 6       \* slots asked of the generator by both flows
DayHours == 24       \* 1000 * 60 * 60 * 24 ms, in hours

-----------------------------------------------------------------------------
(* Text *)

IsArabic(c) == c >= 1536 /\ c <= 1791          \* [\u0600-\u06FF]
IsDigit(c) == c >= 48 /\ c <= 57               \* \d
IsSpace(c) == c \in {9, 10, 11, 12, 13, 32, 160}
IsWordChar(c) == \/ c >= 97 /\ c <= 122        \* \w
                 \/ c >= 65 /\ c <= 90
                 \/ IsDigit(c)
                 \/ c = 95

detectLanguage(text) ==
    IF \E i \in 1..Len(text) : IsArabic(text[i]) THEN "ar" ELSE "en"

copy(lang, en, ar) == IF lang = "ar" THEN ar ELSE en

trim(text) ==
    LET between(keep) ==
            IF keep = {} THEN <<>>
            ELSE LET lo == CHOOSE i \in keep : \A j \in keep : i <= j
                     hi == CHOOSE i \in keep : \A j \in keep : i >= j
                 IN  SubSeq(text, lo, hi)
    IN  CHOOSE trimmed \in {between(keep) : keep \in {{i \in 1..Len(text) : ~IsSpace(text[i])}}} : TRUE

toLowerCase(text) ==
    [i \in 1..Len(text) |-> IF text[i] >= 65 /\ text[i] <= 90 THEN text[i] + 32 ELSE text[i]]

normalize(text) == CHOOSE lower \in {toLowerCase(trimmed) : trimmed \in {trim(text)}} : TRUE

\* String.prototype.includes, and an unanchored regex of a literal
includes(text, word) ==
    \E i \in 1..(Len(text) - Len(word) + 1) : SubSeq(text, i, i + Len(word) - 1) = word

\* /\b(word)\b/ for a word made of word characters
matchesWord(text, word) ==
    \E i \in 1..(Len(text) - Len(word) + 1) :
        /\ SubSeq(text, i, i + Len(word) - 1) = word
        /\ i = 1 \/ ~IsWordChar(text[i - 1])
        /\ i + Len(word) - 1 = Len(text) \/ ~IsWordChar(text[i + Len(word)])

\* text.match(/(\d+)/): the first run of digits, <<>> when there is none
firstDigits(text) ==
    LET at == {i \in 1..Len(text) : IsDigit(text[i])}
    IN  IF at = {} THEN <<>>
        ELSE LET run(lo) ==
                     LET hi == CHOOSE i \in lo..Len(text) :
                                   /\ \A j \in lo..i : IsDigit(text[j])
                                   /\ i = Len(text) \/ ~IsDigit(text[i + 1])
                     IN  SubSeq(text, lo, hi)
             IN  CHOOSE digits \in {run(lo) : lo \in {CHOOSE i \in at : \A j \in at : i <= j}} : TRUE

RECURSIVE digitsValue(_)
digitsValue(ds) ==
    IF ds = <<>> THEN 0
    ELSE 10 * digitsValue(SubSeq(ds, 1, Len(ds) - 1)) + (ds[Len(ds)] - 48)

\* parseInt(text, 10): leading white space, an optional sign, then digits
parseInt(text) ==
    LET parse(s) ==
            LET signed == s # <<>> /\ s[1] \in {43, 45}
                body == IF signed THEN Tail(s) ELSE s
                ds == IF body # <<>> /\ IsDigit(body[1]) THEN firstDigits(body) ELSE <<>>
            IN  IF ds = <<>> THEN NaN
                ELSE IF signed /\ s[1] = 45 THEN Num(0 - digitsValue(ds)) ELSE Num(digitsValue(ds))
    IN  CHOOSE number \in {parse(s) : s \in {trim(text)}} : TRUE

\* text.replace(/[^0-9+]/g, '')
stripPhone(text) == SelectSeq(text, LAMBDA c : IsDigit(c) \/ c = 43)

\* GreetingWords: hi | hello | hey | salam | salaam
GreetingWords ==
    { <<104,105>>,
      <<104,101,108,108,111>>,
      <<104,101,121>>,
      <<115,97,108,97,109>>,
      <<115,97,108,97,97,109>> }
\* GreetingPhrases: U+0645.0631.062D.0628.0627. | U+0627.0644.0633.0644.0627.0645.
GreetingPhrases ==
    { <<1605,1585,1581,1576,1575>>,
      <<1575,1604,1587,1604,1575,1605>> }
\* BookingWords: book | appointment | reserve | schedule | U+062D.062C.0632. | U+0645.0648.0639.062F. | U+0627.062D.062C.0632.
BookingWords ==
    { <<98,111,111,107>>,
      <<97,112,112,111,105,110,116,109,101,110,116>>,
      <<114,101,115,101,114,118,101>>,
      <<115,99,104,101,100,117,108,101>>,
      <<1581,1580,1586>>,
      <<1605,1608,1593,1583>>,
      <<1575,1581,1580,1586>> }
\* RescheduleWords: resched | change | U+062A.063A.064A.064A.0631. | U+062A.0639.062F.064A.0644. | U+0623.062C.0644.
RescheduleWords ==
    { <<114,101,115,99,104,101,100>>,
      <<99,104,97,110,103,101>>,
      <<1578,1594,1610,1610,1585>>,
      <<1578,1593,1583,1610,1604>>,
      <<1571,1580,1604>> }
\* HoursWords: hour | open | close | working | U+0645.062A.0649. | U+0633.0627.0639.0627.062A. | U+062A.0641.062A.062D. | U+062F.0648.0627.0645.
HoursWords ==
    { <<104,111,117,114>>,
      <<111,112,101,110>>,
      <<99,108,111,115,101>>,
      <<119,111,114,107,105,110,103>>,
      <<1605,1578,1609>>,
      <<1587,1575,1593,1575,1578>>,
      <<1578,1601,1578,1581>>,
      <<1583,1608,1575,1605>> }
\* ServicesWords: service | offer | U+0639.0631.0648.0636. | U+062E.062F.0645.0627.062A.
ServicesWords ==
    { <<115,101,114,118,105,99,101>>,
      <<111,102,102,101,114>>,
      <<1593,1585,1608,1590>>,
      <<1582,1583,1605,1575,1578>> }
\* AdviceWords: style | hair | look | fade | pompadour | U+0642.0635.0627.062A. | U+0633.062A.0627.064A.0644. | U+0634.0643.0644.
AdviceWords ==
    { <<115,116,121,108,101>>,
      <<104,97,105,114>>,
      <<108,111,111,107>>,
      <<102,97,100,101>>,
      <<112,111,109,112,97,100,111,117,114>>,
      <<1602,1589,1575,1578>>,
      <<1587,1578,1575,1610,1604>>,
      <<1588,1603,1604>> }
\* ThanksWords: thanks | thank you | gracias | U+0634.0643.0631.0627. | U+0645.0645.0646.0648.0646.
ThanksWords ==
    { <<116,104,97,110,107,115>>,
      <<116,104,97,110,107,32,121,111,117>>,
      <<103,114,97,99,105,97,115>>,
      <<1588,1603,1585,1575>>,
      <<1605,1605,1606,1608,1606>> }
\* ReminderWords: remind | U+062A.0630.0643.064A.0631. | U+0630.0643.0631.0646.064A.
ReminderWords ==
    { <<114,101,109,105,110,100>>,
      <<1578,1584,1603,1610,1585>>,
      <<1584,1603,1585,1606,1610>> }
\* SmalltalkWords: how are you | U+0643.064A.0641.0020.062D.0627.0644.0643. | U+0634.0648.0020.0627.0644.0623.062E.0628.0627.0631.
SmalltalkWords ==
    { <<104,111,119,32,97,114,101,32,121,111,117>>,
      <<1603,1610,1601,32,1581,1575,1604,1603>>,
      <<1588,1608,32,1575,1604,1571,1582,1576,1575,1585>> }

-----------------------------------------------------------------------------
(* Language, service and intent detection *)

RECURSIVE firstService(_, _)
firstService(normalized, i) ==
    IF i > Len(SERVICE_KEYWORDS) THEN NoService
    ELSE IF \E keyword \in SERVICE_KEYWORDS[i].keywords : includes(normalized, keyword)
         THEN SERVICE_KEYWORDS[i].id
         ELSE firstService(normalized, i + 1)

matchService(text) ==
    CHOOSE id \in {firstService(normalized, 1) : normalized \in {normalize(text)}} : TRUE

\* variant: the reschedule keywords looked for before the booking keywords
detectIntentRescheduleFirst(text) ==
    LET normalized == normalize(text)
        any(words) == \E w \in words : includes(normalized, w)
    IN  IF (\E w \in GreetingWords : matchesWord(normalized, w)) \/ any(GreetingPhrases)
        THEN "greeting"
        ELSE IF any(RescheduleWords) THEN "reschedule"
        ELSE IF any(BookingWords) THEN "booking"
        ELSE IF any(HoursWords) THEN "hours"
        ELSE IF any(ServicesWords) THEN "services"
        ELSE IF any(AdviceWords) THEN "advice"
        ELSE IF any(ThanksWords) THEN "thanks"
        ELSE IF any(ReminderWords) THEN "reminder"
        ELSE IF any(SmalltalkWords) THEN "smalltalk"
        ELSE "unknown"

\* (normalized is worked out once, then tested against each pattern in turn)
detectIntent(text) ==
    LET tests(normalized) ==
            LET any(words) == \E w \in words : includes(normalized, w)
            IN  IF (\E w \in GreetingWords : matchesWord(normalized, w)) \/ any(GreetingPhrases)
                THEN "greeting"
                ELSE IF any(BookingWords) THEN "booking"
                ELSE IF any(RescheduleWords) THEN "reschedule"
                ELSE IF any(HoursWords) THEN "hours"
                ELSE IF any(ServicesWords) THEN "services"
                ELSE IF any(AdviceWords) THEN "advice"
                ELSE IF any(ThanksWords) THEN "thanks"
                ELSE IF any(ReminderWords) THEN "reminder"
                ELSE IF any(SmalltalkWords) THEN "smalltalk"
                ELSE "unknown"
    IN  CHOOSE intent \in {tests(normalized) : normalized \in {normalize(text)}} : TRUE

getServiceFromSelection(input) ==
    LET select(normalized) ==
            LET numberMatch == firstDigits(normalized)
            IN  IF numberMatch # <<>>
                THEN LET index == digitsValue(numberMatch) - 1
                     IN  IF index >= 0 /\ index < Len(SERVICES) THEN SERVICES[index + 1] ELSE NoService
                ELSE matchService(normalized)
    IN  CHOOSE id \in {select(normalized) : normalized \in {normalize(input)}} : TRUE

\* variant: the number taken as it is, not one less
extractSelectionFromZero(text, options) ==
    LET match == firstDigits(text)
    IN  IF match = <<>> THEN Undefined
        ELSE LET index == digitsValue(match)
             IN  IF index >= 0 /\ index < Len(options) THEN options[index + 1] ELSE Undefined

extractSelection(text, options) ==
    LET match == firstDigits(text)
    IN  IF match = <<>> THEN Undefined
        ELSE LET index == digitsValue(match) - 1
             IN  IF index >= 0 /\ index < Len(options) THEN options[index + 1] ELSE Undefined

-----------------------------------------------------------------------------
(* Dates.  A Date is a number of hours; day 0 is a Sunday. *)

getDay(date) == (date \div 24) % 7
getHours(date) == date % 24
getDate(date) == date \div 24
atOpening(date) == getDate(date) * 24 + WORKING_HOURS.open          \* setHours(open, 0, 0, 0)
nextDayOpening(date) == (getDate(date) + 1) * 24 + WORKING_HOURS.open \* setDate(+1), setHours(open, ...)

\* date.toISOString() and new Date(iso).getTime()
toISOString(date) == <<date \div 24, date % 24>>
getTime(iso) == iso[1] * 24 + iso[2]

\* toLocaleDateString / toLocaleTimeString: weekday, day and time, per locale
display(date) ==
    [en |-> [locale |-> "en", weekday |-> getDay(date), day |-> getDate(date), hour |-> getHours(date)],
     ar |-> [locale |-> "ar", weekday |-> getDay(date), day |-> getDate(date), hour |-> getHours(date)]]

SlotOption(date) == [id |-> toISOString(date), iso |-> toISOString(date), display |-> display(date)]

\* variant: the 24-hour boundary itself left out
within24HoursExclusive(iso) ==
    LET diff == getTime(iso) - now
    IN  diff > 0 /\ diff < DayHours

\* variant: a slot that has passed counted as due
within24HoursOrPast(iso) ==
    LET diff == getTime(iso) - now
    IN  diff <= DayHours

within24Hours(iso) ==
    LET diff == getTime(iso) - now
    IN  diff > 0 /\ diff <= DayHours

-----------------------------------------------------------------------------
(* Slot generator *)

\* variant: the new option put in front
pushSlotInFront(options, date, booked) ==
    IF toISOString(date) \in booked THEN options ELSE <<SlotOption(date)>> \o options

pushSlot(options, date, booked) ==
    IF toISOString(date) \in booked THEN options ELSE Append(options, SlotOption(date))

\* variant: a slot at the current instant accepted
slotOpenFromNow(slot) ==
    /\ slot >= now
    /\ getHours(slot) >= WORKING_HOURS.open
    /\ getHours(slot) < WORKING_HOURS.close

slotOpen(slot) ==
    /\ slot > now
    /\ getHours(slot) >= WORKING_HOURS.open
    /\ getHours(slot) < WORKING_HOURS.close

\* one pass through the body of the while loop, on its variables s
slotStep(booked, s) ==
    IF getDay(s.cursor) = WORKING_HOURS.closedOn
    THEN [cursor |-> nextDayOpening(s.cursor), options |-> s.options, attempts |-> s.attempts + 1]
    ELSE LET pushed == IF slotOpen(s.cursor) THEN pushSlot(s.options, s.cursor, booked)
                       ELSE s.options
             stepped == s.cursor + 2
             next == IF getHours(stepped) >= WORKING_HOURS.close
                     THEN nextDayOpening(stepped) ELSE stepped
         IN  [cursor |-> next, options |-> pushed, attempts |-> s.attempts + 1]

\* variant: the loop goes on until the cap whatever it has collected
loopToTheCap(count, options, attempts) == attempts < MaxAttempts

\* the condition of the while loop
loopContinues(count, options, attempts) == Len(options) < count /\ attempts < MaxAttempts

\* the while loop from s on, followed for n passes at most (the passes are taken
\* half by half to keep the nesting of the evaluation shallow, and the state
\* after the first half is worked out once, before the second half starts)
RECURSIVE slotRun(_, _, _, _)
slotRun(count, booked, s, n) ==
    IF n = 0 \/ ~loopContinues(count, s.options, s.attempts) THEN s
    ELSE IF n = 1 THEN slotStep(booked, s)
    ELSE CHOOSE end \in {slotRun(count, booked, half, n - n \div 2) :
                            half \in {slotRun(count, booked, s, n \div 2)}} : TRUE

\* the while loop; it ends with the options collected and the value of attempts.
\* It is followed for one pass more than the cap allows, so that a loop that
\* ran past the cap would end with attempts above it.
slotLoop(count, booked, cursor, options, attempts) ==
    LET end == slotRun(count, booked,
                       [cursor |-> cursor, options |-> options, attempts |-> attempts],
                       MaxAttempts + 1)
    IN  [options |-> end.options, attempts |-> end.attempts]

\* (the set of booked slots is worked out once, before the loop)
generateSlotOptions(count, booked) ==
    CHOOSE options \in {slotLoop(count, taken, atOpening(now), <<>>, 0).options :
                           taken \in {booked}} : TRUE

-----------------------------------------------------------------------------
(* Messages *)

\* id (a random UUID) and timestamp are written and never read: left out
createMessage(sender, text, language) == [sender |-> sender, text |-> text, language |-> language]

\* The text of a message: the template it is built from and what is filled in.
\* chars: the user's own words; name: a client name; service: a service label;
\* shown: the slot displays it lists, in the language of the message.
Text(tpl, name, service, shown) ==
    [tpl |-> tpl, chars |-> <<>>, name |-> name, service |-> service, shown |-> shown]
Plain(tpl) == Text(tpl, <<>>, NoService, <<>>)
UserText(chars) == [tpl |-> "user", chars |-> chars, name |-> <<>>, service |-> NoService, shown |-> <<>>]

listSlotOptions(options, lang) == [i \in 1..Len(options) |-> options[i].display[lang]]

\* one assistant message, as pushAssistant appends it
assistant(text, language) == <<createMessage("assistant", text, language)>>

Welcome == createMessage("assistant", Plain("welcome"), "en")

-----------------------------------------------------------------------------
(* What the user types.  script holds, for each submission still to come,  *)
(* the set of texts it may be.                                             *)

TxtBookHaircut == <<98,111,111,107,32,97,32,104,97,105,114,99,117,116>>  \* "book a haircut"
TxtBookAr == <<1581,1580,1586>>                      \* the Arabic word for booking, U+062D U+062C U+0632
TxtOne == <<49>>                                     \* "1"
TxtTwo == <<50>>                                     \* "2"
TxtFive == <<53>>                                    \* "5"
TxtNine == <<57>>                                    \* "9"
TxtAl == <<65,108>>                                  \* "Al"
TxtBo == <<66,111>>                                  \* "Bo"
TxtCy == <<67,121>>                                  \* "Cy"
TxtPhone == <<43,49,32,53,53,53,32,48,49,48,48>>     \* "+1 555 0100"
TxtChange == <<99,104,97,110,103,101>>               \* "change"
TxtBlank == <<32,32>>                                \* "  "
\* texts with the keywords of more than one intent
TxtHiBook == <<104,105,32,98,111,111,107>>                               \* "hi book"
TxtChangeBooking == <<99,104,97,110,103,101,32,98,111,111,107,105,110,103>>  \* "change booking"
TxtReschedule == <<82,101,115,99,104,101,100,117,108,101>>                \* "Reschedule"
TxtOpenOffer == <<111,112,101,110,32,111,102,102,101,114>>                \* "open offer"
TxtHairService == <<104,97,105,114,32,115,101,114,118,105,99,101>>        \* "hair service"
TxtThanksLook == <<116,104,97,110,107,115,44,32,110,105,99,101,32,108,111,111,107>>  \* "thanks, nice look"
TxtThanksRemind == <<116,104,97,110,107,115,32,114,101,109,105,110,100>>  \* "thanks remind"
TxtRemindHow == <<104,111,119,32,97,114,101,32,121,111,117,63,32,114,101,109,105,110,100>>  \* "how are you? remind"
TxtHow == <<104,111,119,32,97,114,101,32,121,111,117>>                    \* "how are you"
TxtThis == <<116,104,105,115>>                                            \* "this": "hi" inside a word
TxtHoursAr == <<1605,1578,1609,32,1581,1580,1586>>   \* the Arabic words for when and booking
TxtPhoneAr == <<1585,1602,1605,32,53,53,53,48,49,48,48,48>>  \* the Arabic word for number, then "55501000"

MaxSubmits == 2    \* events of a session in which anything may come at any time
MaxPending == 2    \* deferred callbacks outstanding at once

StartTime == 6 * 24 + 10   \* a Saturday, 10:00

\* One event of a script: the user submits one of texts, or lets one of waits
\* hours pass.  A rapid event may come while earlier submissions are still being
\* processed; any other comes once the assistant has answered them.
say(texts) == [texts |-> texts, waits |-> {}, rapid |-> FALSE]
rush(texts) == [texts |-> texts, waits |-> {}, rapid |-> TRUE]
wait(hours) == [texts |-> {}, waits |-> hours, rapid |-> FALSE]

Texts == {TxtBookHaircut, TxtBookAr, TxtOne, TxtFive, TxtAl, TxtPhone, TxtChange, TxtBlank}

\* anything at any time
FreeScript == [i \in 1..MaxSubmits |-> [texts |-> Texts, waits |-> {12, 24}, rapid |-> TRUE]]

\* one booking, with valid and invalid answers in both languages at every stage,
\* and the phone number sent more than once
ScriptBook ==
    << rush({TxtBookHaircut, TxtBookAr}),
       rush({TxtOne, TxtFive, TxtAl, TxtBookAr}),
       rush({TxtOne, TxtAl, TxtBookAr}),
       rush({TxtAl, TxtOne, TxtPhone}),
       rush({TxtPhone, TxtOne}),
       rush({TxtPhone}) >>

\* two bookings a day apart, then each of them moved, a day apart again
ScriptRemind ==
    << say({TxtBookHaircut}), say({TxtFive, TxtOne}), say({TxtAl}), say({TxtPhone}),
       wait({24}),
       say({TxtBookHaircut}), say({TxtOne}), say({TxtBo}), say({TxtPhone}),
       say({TxtChange}), say({TxtOne, TxtTwo, TxtNine}), say({TxtFive, TxtOne, TxtNine}),
       wait({24}),
       say({TxtChange}), say({TxtTwo, TxtOne}), say({TxtOne}) >>

\* two bookings two days ahead, a third one when both are less than a day away
\* or have passed
ScriptThree ==
    << say({TxtBookHaircut}), say({TxtFive}), say({TxtAl}), say({TxtPhone}),
       say({TxtBookAr}), say({TxtFive}), say({TxtTwo}), say({TxtBo}), say({TxtPhone}),
       wait({24, 36, 60}),
       say({TxtBookHaircut}), say({TxtOne}), say({TxtCy}), say({TxtPhone}) >>

\* a booking, then a reschedule request and a booking request in quick succession
ScriptOverlap ==
    << say({TxtBookHaircut}), say({TxtOne}), say({TxtAl}), say({TxtPhone}),
       rush({TxtChange, TxtBookHaircut}), rush({TxtBookHaircut, TxtChange}),
       rush({TxtOne}), rush({TxtOne}) >>

\* with a booking flow and a reschedule flow both under way, the phone number is
\* sent twice and an appointment is picked to be moved before the second is processed
ScriptStale ==
    << say({TxtBookHaircut}), say({TxtOne}), say({TxtAl}), say({TxtPhone}),
       rush({TxtChange}), rush({TxtBookHaircut}), say({TxtOne}), say({TxtBo}),
       rush({TxtPhone}), rush({TxtPhone}), rush({TxtTwo, TxtOne}), say({TxtOne, TxtTwo}) >>

\* two messages outside a flow, each with the keywords of one intent or of two
IntentTexts == {TxtHiBook, TxtChangeBooking, TxtReschedule, TxtChange, TxtOpenOffer,
                TxtHairService, TxtThanksLook, TxtThanksRemind, TxtRemindHow, TxtHow,
                TxtThis, TxtHoursAr}
ScriptIntent == << say(IntentTexts), say(IntentTexts) >>

\* a booking two days ahead, and a question a day later, when it is due
ScriptAsk ==
    << say({TxtBookHaircut}), say({TxtFive}), say({TxtAl}), say({TxtPhone}),
       wait({24}),
       say({TxtRemindHow, TxtThanksRemind, TxtOpenOffer, TxtHow}) >>

\* a booking asked for in English with the phone number given in an Arabic or an
\* English message, one asked for in Arabic with the number given in English,
\* and a day later one of the two moved
ScriptLang ==
    << say({TxtBookHaircut}), say({TxtFive}), say({TxtAl}), say({TxtPhoneAr, TxtPhone}),
       say({TxtBookAr}), say({TxtFive}), say({TxtOne}), say({TxtBo}), say({TxtPhone}),
       wait({24}),
       say({TxtChange}), say({TxtOne, TxtTwo}), say({TxtOne, TxtFive}) >>

Scripts == {FreeScript, ScriptBook, ScriptRemind, ScriptThree, ScriptOverlap, ScriptStale,
            ScriptIntent, ScriptAsk, ScriptLang}

-----------------------------------------------------------------------------
(* The session *)

EmptyCollected == [k \in {} |-> TRUE]                    \* {}
with(collected, field, value) ==                         \* { ...collected, field: value }
    [k \in (DOMAIN collected) \cup {field} |-> IF k = field THEN value ELSE collected[k]]
has(collected, field) == field \in DOMAIN collected

Init ==
    /\ messages = <<Welcome>>
    /\ appointments = <<>>
    /\ bookingState = Null
    /\ rescheduleState = Null
    /\ pending = <<>>
    /\ now = StartTime
    /\ script \in Scripts
    /\ checked = [list |-> <<>>, at |-> StartTime, run |-> 1]   \* the effect runs on mount
    /\ reminderLog = <<>>
    /\ gen = Null

\* variant: a new timer takes the place of the outstanding ones
setTimeoutReplacing(timers, callback) == <<callback>>

\* setTimeout(callback, 120): one more timer, behind those already set
setTimeout(timers, callback) == Append(timers, callback)

\* handleSubmit: the user message is appended at once; processInput runs later, in
\* a callback that closes over the state of the render it was created in.
Submit ==
    /\ script # <<>>
    /\ Len(pending) < MaxPending
    /\ Head(script).rapid \/ pending = <<>>
    /\ \E raw \in Head(script).texts :
        LET trimmed == trim(raw)
            language == detectLanguage(trimmed)
        IN  /\ trimmed # <<>>
            /\ messages' = Append(messages, createMessage("user", UserText(trimmed), language))
            /\ pending' = setTimeout(pending, [text |-> trimmed,
                                               language |-> language,
                                               bookingState |-> bookingState,
                                               rescheduleState |-> rescheduleState,
                                               appointments |-> appointments])
    /\ script' = Tail(script)
    /\ UNCHANGED <<appointments, bookingState, rescheduleState, now, checked, reminderLog, gen>>

\* the wall clock moves on
Tick ==
    /\ script # <<>>
    /\ Head(script).rapid \/ pending = <<>>
    /\ \E d \in Head(script).waits : now' = now + d
    /\ script' = Tail(script)
    /\ UNCHANGED <<messages, appointments, bookingState, rescheduleState, pending,
                   checked, reminderLog, gen>>

\* the oldest callback fires: all timers have the same delay of 120 ms, so they
\* fire in the order of the submissions
fired == pending' = Tail(pending) /\ UNCHANGED <<now, script, gen>>
\* variant: every answer said twice
pushAssistantTwice(text, language) ==
    messages' = messages \o assistant(text, language) \o assistant(text, language)
\* variant: every answer in English
pushAssistantEnglish(text, language) == messages' = messages \o assistant(text, "en")

pushAssistant(text, language) == messages' = messages \o assistant(text, language)
storeUntouched == UNCHANGED <<appointments, checked, reminderLog>>

\* the reminder useEffect, run on the list a render sees
\* variant: the flag not looked at
upcomingInWindow(list) == SelectSeq(list, LAMBDA a : within24Hours(a.slot.iso))

upcoming(list) == SelectSeq(list, LAMBDA a : ~a.reminderSent /\ within24Hours(a.slot.iso))
\* variant: every appointment flagged as soon as one is due
markAllWhenAnyDue(previous, up) ==
    [i \in 1..Len(previous) |->
        IF Len(up) > 0 THEN [previous[i] EXCEPT !.reminderSent = TRUE] ELSE previous[i]]

markReminded(previous, up) ==
    [i \in 1..Len(previous) |->
        IF \E j \in 1..Len(up) : up[j].id = previous[i].id
        THEN [previous[i] EXCEPT !.reminderSent = TRUE]
        ELSE previous[i]]
reminderMessages(up) ==
    [i \in 1..Len(up) |->
        createMessage("assistant",
                      Text("reminder", up[i].clientName, NoService, <<up[i].slot.display[up[i].language]>>),
                      up[i].language)]

\* setAppointments in a handler, the handler's own messages, and the reminder
\* effect of the render that follows: the effect sees the new list, flags the
\* appointments that are due in one update and appends one message for each (its
\* second run, on the flagged list, finds nothing due)
setAppointments(list, said) ==
    LET up == upcoming(list)
    IN  /\ appointments' = markReminded(list, up)
        /\ messages' = messages \o said \o reminderMessages(up)
        /\ checked' = [list |-> list, at |-> now, run |-> checked.run + 1]
        /\ reminderLog' = reminderLog \o [i \in 1..Len(up) |-> <<up[i].id, up[i].slot.iso>>]

\* variant: every submission taken as if no flow were active
idleAlways(p) == TRUE

\* processInput goes on to detectIntent: neither flow state is set
idle(p) == p.bookingState = Null /\ p.rescheduleState = Null

\* variant: an empty list of options offered like any other
noSlotsNever(options) == FALSE

\* options.length === 0
noSlots(options) == Len(options) = 0

bookedSlots(list) == {list[i].slot.iso : i \in 1..Len(list)}

startBookingFlow ==
    /\ pending # <<>>
    /\ LET p == Head(pending)
       IN  /\ idle(p)
           /\ detectIntent(p.text) = "booking"
           /\ LET options == generateSlotOptions(SlotCount, bookedSlots(p.appointments))
                  maybeService == matchService(p.text)
              IN  IF noSlots(options)
                  THEN /\ pushAssistant(Plain("fullyBooked"), p.language)
                       /\ UNCHANGED bookingState
                  ELSE /\ pushAssistant(Text("slotIntro", <<>>, maybeService,
                                             listSlotOptions(options, p.language)), p.language)
                       /\ bookingState' =
                              [stage |-> "selectSlot",
                               language |-> p.language,
                               options |-> options,
                               collected |-> IF maybeService # NoService
                                             THEN [service |-> maybeService]
                                             ELSE EmptyCollected]
    /\ UNCHANGED rescheduleState
    /\ storeUntouched
    /\ fired

\* variant: the service question always skipped
stageAfterSlotSkipping(collected) == "collectName"

\* bookingState.collected.service ? 'collectName' : 'collectService'
stageAfterSlot(collected) == IF has(collected, "service") THEN "collectName" ELSE "collectService"

bookingSelectSlot ==
    /\ pending # <<>>
    /\ LET p == Head(pending)
           b == p.bookingState
       IN  /\ b # Null
           /\ b.stage = "selectSlot"
           /\ LET selection == extractSelection(p.text, b.options)
              IN  IF selection = Undefined
                  THEN /\ pushAssistant(Plain("pickSlotAgain"), p.language)
                       /\ UNCHANGED bookingState
                  ELSE /\ bookingState' =
                              [b EXCEPT !.stage = stageAfterSlot(b.collected),
                                        !.collected = with(b.collected, "slot", selection)]
                       /\ IF ~has(b.collected, "service")
                          THEN pushAssistant(Plain("askService"), p.language)
                          ELSE pushAssistant(Plain("askName"), p.language)
    /\ UNCHANGED rescheduleState
    /\ storeUntouched
    /\ fired

bookingCollectService ==
    /\ pending # <<>>
    /\ LET p == Head(pending)
           b == p.bookingState
       IN  /\ b # Null
           /\ b.stage = "collectService"
           /\ LET serviceId == getServiceFromSelection(p.text)
              IN  IF serviceId = NoService
                  THEN /\ pushAssistant(Plain("pickServiceAgain"), p.language)
                       /\ UNCHANGED bookingState
                  ELSE /\ bookingState' =
                              [b EXCEPT !.stage = "collectName",
                                        !.collected = with(b.collected, "service", serviceId)]
                       /\ pushAssistant(Plain("askNameForService"), p.language)
    /\ UNCHANGED rescheduleState
    /\ storeUntouched
    /\ fired

\* variant: one character is enough
nameEmpty(name) == Len(name) < 1

\* name.length < 2
nameTooShort(name) == Len(name) < 2

bookingCollectName ==
    /\ pending # <<>>
    /\ LET p == Head(pending)
           b == p.bookingState
       IN  /\ b # Null
           /\ b.stage = "collectName"
           /\ LET name == trim(p.text)
              IN  IF nameTooShort(name)
                  THEN /\ pushAssistant(Plain("nameAgain"), p.language)
                       /\ UNCHANGED bookingState
                  ELSE /\ bookingState' =
                              [b EXCEPT !.stage = "collectPhone",
                                        !.collected = with(b.collected, "clientName", name)]
                       /\ pushAssistant(Plain("askPhone"), p.language)
    /\ UNCHANGED rescheduleState
    /\ storeUntouched
    /\ fired

\* collected.f!, which is undefined when the field was never set
collectedSlot(b) == IF has(b.collected, "slot") THEN b.collected.slot ELSE Undefined
collectedService(b) == IF has(b.collected, "service") THEN b.collected.service ELSE NoService
collectedName(b) == IF has(b.collected, "clientName") THEN b.collected.clientName ELSE <<>>

\* variant: the language the flow was started in
appointmentLanguageOfFlow(p, b) == b.language

\* language, in the appointment literal: the language of the message being processed
appointmentLanguage(p, b) == p.language

bookingCollectPhone ==
    /\ pending # <<>>
    /\ LET p == Head(pending)
           b == p.bookingState
       IN  /\ b # Null
           /\ b.stage = "collectPhone"
           /\ LET digits == stripPhone(p.text)
                  booking == [slot |-> collectedSlot(b),
                              service |-> collectedService(b),
                              clientName |-> collectedName(b),
                              phone |-> digits]
              IN  IF Len(digits) < 8
                  THEN /\ pushAssistant(Plain("phoneAgain"), p.language)
                       /\ UNCHANGED bookingState
                       /\ storeUntouched
                  ELSE IF booking.slot = Undefined
                  THEN \* booking.slot.iso throws; the callback ends with nothing set
                       UNCHANGED <<messages, bookingState, appointments, checked, reminderLog>>
                  ELSE LET appointment ==
                               [id |-> Len(appointments) + 1,   \* crypto.randomUUID(): a fresh id
                                slot |-> booking.slot,
                                service |-> booking.service,
                                clientName |-> booking.clientName,
                                phone |-> booking.phone,
                                language |-> appointmentLanguage(p, b),
                                reminderSent |-> within24Hours(booking.slot.iso)]
                           confirmation ==
                               assistant(Text("confirmation", booking.clientName, booking.service,
                                              <<booking.slot.display[p.language]>>), p.language)
                           expect ==
                               IF ~appointment.reminderSent
                               THEN assistant(Plain("expectReminder"), p.language)
                               ELSE <<>>
                       IN  /\ setAppointments(Append(appointments, appointment),
                                              confirmation \o expect)
                           /\ bookingState' = Null
    /\ UNCHANGED rescheduleState
    /\ fired

formatAppointments(list, lang) == [i \in 1..Len(list) |-> list[i].slot.display[lang]]

startRescheduleFlow ==
    /\ pending # <<>>
    /\ LET p == Head(pending)
       IN  /\ idle(p)
           /\ detectIntent(p.text) = "reschedule"
           /\ IF Len(p.appointments) = 0
              THEN /\ pushAssistant(Plain("noBookings"), p.language)
                   /\ UNCHANGED rescheduleState
              ELSE /\ pushAssistant(Text("whichAppointment", <<>>, NoService,
                                         formatAppointments(p.appointments, p.language)), p.language)
                   /\ rescheduleState' = [stage |-> "selectAppointment",
                                          language |-> p.language,
                                          targetAppointment |-> Undefined,
                                          options |-> <<>>]
    /\ UNCHANGED bookingState
    /\ storeUntouched
    /\ fired

rescheduleSelectAppointment ==
    /\ pending # <<>>
    /\ LET p == Head(pending)
           r == p.rescheduleState
       IN  /\ p.bookingState = Null
           /\ r # Null
           /\ r.stage = "selectAppointment"
           /\ LET parsed == parseInt(trim(p.text))
                  index == parsed.value - 1
              IN  IF parsed.nan \/ index < 0 \/ index >= Len(p.appointments)
                  THEN /\ pushAssistant(Plain("appointmentAgain"), p.language)
                       /\ UNCHANGED rescheduleState
                  ELSE LET target == p.appointments[index + 1]
                           others == SelectSeq(p.appointments, LAMBDA item : item.id # target.id)
                           options == generateSlotOptions(SlotCount, bookedSlots(others))
                       IN  IF noSlots(options)
                           THEN /\ pushAssistant(Plain("noFreeSlots"), p.language)
                                /\ rescheduleState' = Null
                           ELSE /\ pushAssistant(Text("pickNewSlot", <<>>, NoService,
                                                      listSlotOptions(options, p.language)), p.language)
                                /\ rescheduleState' = [stage |-> "selectSlot",
                                                       language |-> p.language,
                                                       targetAppointment |-> target,
                                                       options |-> options]
    /\ UNCHANGED bookingState
    /\ storeUntouched
    /\ fired

\* variant: the id not compared
moveEveryAppointment(previous, id, selection) ==
    [i \in 1..Len(previous) |->
        [previous[i] EXCEPT !.slot = selection,
                            !.reminderSent = within24Hours(selection.iso)]]

moveAppointment(previous, id, selection) ==
    [i \in 1..Len(previous) |->
        IF previous[i].id = id
        THEN [previous[i] EXCEPT !.slot = selection,
                                 !.reminderSent = within24Hours(selection.iso)]
        ELSE previous[i]]

rescheduleSelectSlot ==
    /\ pending # <<>>
    /\ LET p == Head(pending)
           r == p.rescheduleState
       IN  /\ p.bookingState = Null
           /\ r # Null
           /\ r.stage = "selectSlot"
           /\ r.targetAppointment # Undefined
           /\ LET selection == extractSelection(p.text, r.options)
              IN  IF selection = Undefined
                  THEN /\ pushAssistant(Plain("newSlotAgain"), p.language)
                       /\ UNCHANGED rescheduleState
                       /\ storeUntouched
                  ELSE /\ setAppointments(
                              moveAppointment(appointments, r.targetAppointment.id, selection),
                              assistant(Text("rescheduled", <<>>, NoService,
                                             <<selection.display[p.language]>>), p.language))
                       /\ rescheduleState' = Null
    /\ UNCHANGED bookingState
    /\ fired

\* the intents that only answer: greeting, hours, services, advice, thanks,
\* reminder, smalltalk and unknown
isOpenNow ==
    /\ getHours(now) >= WORKING_HOURS.open
    /\ getHours(now) < WORKING_HOURS.close
    /\ getDay(now) # WORKING_HOURS.closedOn

answer(intent, p) ==
    CASE intent = "hours" -> Plain(IF isOpenNow THEN "hoursOpen" ELSE "hoursClosed")
      [] intent = "reminder" ->
            IF Len(p.appointments) = 0 THEN Plain("noReminders")
            ELSE Text("reminderStatus", <<>>, NoService, formatAppointments(p.appointments, p.language))
      [] OTHER -> Plain(intent)

respond ==
    /\ pending # <<>>
    /\ LET p == Head(pending)
           intent == detectIntent(p.text)
       IN  /\ idle(p)
           /\ intent \notin {"booking", "reschedule"}
           /\ pushAssistant(answer(intent, p), p.language)
    /\ UNCHANGED <<bookingState, rescheduleState>>
    /\ storeUntouched
    /\ fired

processInput ==
    \/ startBookingFlow
    \/ bookingSelectSlot
    \/ bookingCollectService
    \/ bookingCollectName
    \/ bookingCollectPhone
    \/ startRescheduleFlow
    \/ rescheduleSelectAppointment
    \/ rescheduleSelectSlot
    \/ respond

Next == Submit \/ Tick \/ processInput

Spec == Init /\ [][Next]_vars

\* the same session with the timers firing: a callback set with setTimeout(..., 120)
\* runs once its delay is over, whatever else is submitted meanwhile
SpecLive == Spec /\ WF_vars(processInput)

-----------------------------------------------------------------------------
(* The slot generator on its own: any time between a Saturday morning and  *)
(* the Monday after, any count up to MaxCount, any of a few slots booked.  *)

MaxCount == 3

GenTimes == (6 * 24 + 8)..(8 * 24 + 12)
GenBookable == {toISOString(6 * 24 + 12), toISOString(6 * 24 + 18),
                toISOString(8 * 24 + 10), toISOString(8 * 24 + 12)}

\* every two-hour slot of the next GenDays days booked, but for some of the
\* first ones and of the ones the loop comes to last
GenDays == 120
GenFree == {toISOString(6 * 24 + 12), toISOString(8 * 24 + 10),
            toISOString(118 * 24 + 16), toISOString(118 * 24 + 18)}
GenEverything == {<<d, h>> : d \in 6..(6 + GenDays), h \in {10, 12, 14, 16, 18}}
GenBooked == (SUBSET GenBookable) \cup {GenEverything \ free : free \in SUBSET GenFree}

InitGen ==
    /\ messages = <<Welcome>>
    /\ appointments = <<>>
    /\ bookingState = Null
    /\ rescheduleState = Null
    /\ pending = <<>>
    /\ now \in GenTimes
    /\ script = <<>>
    /\ checked = [list |-> <<>>, at |-> now, run |-> 1]
    /\ reminderLog = <<>>
    /\ \E count \in 0..MaxCount, booked \in GenBooked :
           gen = [count |-> count, booked |-> booked, result |-> <<>>, attempts |-> 0,
                  done |-> FALSE]

generate ==
    /\ ~gen.done
    /\ LET run == slotLoop(gen.count, gen.booked, atOpening(now), <<>>, 0)
       IN  gen' = [gen EXCEPT !.result = run.options, !.attempts = run.attempts, !.done = TRUE]
    /\ UNCHANGED <<messages, appointments, bookingState, rescheduleState, pending, now,
                   script, checked, reminderLog>>

NextGen == generate

SpecGen == InitGen /\ [][NextGen]_vars

-----------------------------------------------------------------------------
(* A session of a shop that is booked out as far as the generator looks: on *)
(* a Saturday at 09:00 every slot the loop comes to is taken but the first  *)
(* two.                                                                     *)

FullStart == 6 * 24 + 9

\* the passes of the loop from a Saturday opening: five on the Saturday, then 31
\* a week (one for the Sunday, five for each of the six other days); all but the
\* Sunday passes come to a slot
FullSlots ==
    LET left == MaxAttempts - 5
    IN  5 + 30 * (left \div 31) + (IF left % 31 > 0 THEN (left % 31) - 1 ELSE 0)
FullFree == 2

\* the time of the i-th slot from the Saturday opening on
FullSlotAt(i) ==
    LET day == (i - 1) \div 5
    IN  (6 + day + (day + 5) \div 6) * 24 + WORKING_HOURS.open + 2 * ((i - 1) % 5)

\* the store after all these bookings: the flags as the last reminder check left them
FullStore ==
    [k \in 1..(FullSlots - FullFree) |->
        [id |-> k,
         slot |-> SlotOption(FullSlotAt(k + FullFree)),
         service |-> SERVICES[1],
         clientName |-> TxtAl,
         phone |-> stripPhone(TxtPhone),
         language |-> "en",
         reminderSent |-> FullSlotAt(k + FullFree) - FullStart <= DayHours]]

TxtLastButOne == <<52,56,51>>                        \* "483"
TxtLast == <<52,56,52>>                              \* "484"

\* the last two slots are booked, a further request finds nothing; later, when
\* the first slot has passed, an appointment is picked to be moved
ScriptFull ==
    << say({TxtBookHaircut}), say({TxtOne, TxtTwo, TxtFive}), say({TxtAl}), say({TxtPhone}),
       say({TxtBookAr}), say({TxtOne}), say({TxtOne, TxtTwo}), say({TxtBo}), say({TxtPhone}),
       rush({TxtBookHaircut, TxtBookAr, TxtChange}), rush({TxtBookHaircut, TxtChange}),
       wait({1, 3}),
       say({TxtChange}), say({TxtLastButOne, TxtLast, TxtOne, TxtAl}), say({TxtOne, TxtTwo}) >>

InitFull ==
    /\ messages = <<Welcome>>
    /\ appointments = FullStore
    /\ bookingState = Null
    /\ rescheduleState = Null
    /\ pending = <<>>
    /\ now = FullStart
    /\ script = ScriptFull
    /\ checked = [list |-> FullStore, at |-> FullStart, run |-> 1]
    /\ reminderLog = <<>>
    /\ gen = Null

SpecFull == InitFull /\ [][Next]_vars

-----------------------------------------------------------------------------
(* Claims *)

\* the step is the firing of the oldest callback, which handles the text p.text
\* with the flow state and the appointment list of its submission
Firing == pending # <<>> /\ pending' = Tail(pending)
Handled == Head(pending)

Last(seq) == seq[Len(seq)]
Appended == SubSeq(messages', Len(messages) + 1, Len(messages'))
TranscriptGrows ==
    /\ Len(messages') >= Len(messages)
    /\ SubSeq(messages', 1, Len(messages)) = messages

\* the instant of a slot, and whether it is within the 24 hours after time
SlotTime(slot) == slot.iso[1] * 24 + slot.iso[2]
InWindow(slot, time) == SlotTime(slot) - time > 0 /\ SlotTime(slot) - time <= 24

\* text holds a number, and it is the position of one of the n entries listed
Picks(text, n) ==
    /\ firstDigits(text) # <<>>
    /\ digitsValue(firstDigits(text)) >= 1
    /\ digitsValue(firstDigits(text)) <= n
Picked(text) == digitsValue(firstDigits(text))

\* the input a booking flow in the given state does not accept
RejectedByBooking(b, text) ==
    CASE b.stage = "selectSlot" -> ~Picks(text, Len(b.options))
      [] b.stage = "collectService" ->
            IF firstDigits(text) # <<>> THEN ~Picks(text, Len(SERVICES))
            ELSE matchService(text) = NoService
      [] b.stage = "collectName" -> Len(trim(text)) < 2
      [] b.stage = "collectPhone" ->
            Cardinality({i \in 1..Len(text) : text[i] \in 48..57 \/ text[i] = 43}) < 8
      [] OTHER -> FALSE

\* the input a reschedule flow in the given state does not accept
RejectedByReschedule(r, list, text) ==
    CASE r.stage = "selectAppointment" ->
            \/ parseInt(text).nan
            \/ parseInt(text).value < 1
            \/ parseInt(text).value > Len(list)
      [] r.stage = "selectSlot" -> ~Picks(text, Len(r.options))
      [] OTHER -> FALSE

InBooking(p) == p.bookingState # Null
InReschedule(p) == p.bookingState = Null /\ p.rescheduleState # Null

Rejected(p) ==
    \/ InBooking(p) /\ RejectedByBooking(p.bookingState, p.text)
    \/ InReschedule(p) /\ RejectedByReschedule(p.rescheduleState, p.appointments, p.text)

RePrompts == {"pickSlotAgain", "pickServiceAgain", "nameAgain", "phoneAgain",
              "appointmentAgain", "newSlotAgain"}

\* C1: bookingState and rescheduleState are never both non-null, also when a
\* message is submitted while the processing of an earlier one is still pending.
C1_OneFlowAtATime == ~(bookingState # Null /\ rescheduleState # Null)

\* C2: an appointment is added only by the completion of the active booking flow,
\* which adds exactly one, with the slot, service and name the flow collected and
\* the phone number just given, and leaves bookingState null; no flow adds more
\* than one appointment.
C2_CompletedFlowAddsOneAppointment ==
    [][Len(appointments') # Len(appointments) =>
          /\ Firing
          /\ bookingState # Null
          /\ bookingState.stage = "collectPhone"
          /\ Len(appointments') = Len(appointments) + 1
          /\ SubSeq(appointments', 1, Len(appointments)) = appointments
          /\ Last(appointments').slot = bookingState.collected.slot
          /\ Last(appointments').service = bookingState.collected.service
          /\ Last(appointments').clientName = bookingState.collected.clientName
          /\ Last(appointments').phone = stripPhone(Handled.text)
          /\ bookingState' = Null]_vars

\* the step completes a reschedule of the appointment with the given id
Reschedules(id) ==
    /\ Firing
    /\ InReschedule(Handled)
    /\ Handled.rescheduleState.stage = "selectSlot"
    /\ Picks(Handled.text, Len(Handled.rescheduleState.options))
    /\ Handled.rescheduleState.targetAppointment.id = id

\* the store keeps its appointments, in their order
StoreKeeps ==
    /\ Len(appointments') >= Len(appointments)
    /\ \A i \in 1..Len(appointments) : appointments'[i].id = appointments[i].id

\* C3 (as stated): an appointment's reminderSent flag never goes from true back to
\* false, and it goes from false to true only when its slot is within the 24-hour
\* window.
C3_FlagNeverCleared ==
    [][/\ StoreKeeps
       /\ \A i \in 1..Len(appointments) :
              /\ appointments[i].reminderSent => appointments'[i].reminderSent
              /\ ~appointments[i].reminderSent /\ appointments'[i].reminderSent
                     => InWindow(appointments'[i].slot, now')]_vars

\* C3 (amended): the flag goes from true back to false only in a reschedule of
\* that appointment to a slot that is not within the 24-hour window; whenever it
\* goes from false to true, the appointment's slot is within the 24-hour window.
C3_FlagClearedOnlyByReschedule ==
    [][/\ StoreKeeps
       /\ \A i \in 1..Len(appointments) :
              /\ appointments[i].reminderSent /\ ~appointments'[i].reminderSent
                     => /\ Reschedules(appointments[i].id)
                        /\ ~InWindow(appointments'[i].slot, now')
              /\ ~appointments[i].reminderSent /\ appointments'[i].reminderSent
                     => InWindow(appointments'[i].slot, now')]_vars

\* an appointment that was reminded and whose flag is false again
C3_Witness ==
    \E i \in 1..Len(appointments) :
        /\ ~appointments[i].reminderSent
        /\ \E k \in 1..Len(reminderLog) : reminderLog[k][1] = appointments[i].id

\* every reminder message of the transcript is logged
RemindersLogged ==
    Len(SelectSeq(messages, LAMBDA m : m.text.tpl = "reminder")) = Len(reminderLog)

\* C4 (as stated): at most one reminder message is ever appended for an
\* appointment.
C4_OneReminderPerAppointment ==
    /\ RemindersLogged
    /\ \A j, k \in 1..Len(reminderLog) : j # k => reminderLog[j][1] # reminderLog[k][1]

\* C4 (amended): at most one reminder message is ever appended for an appointment
\* and a slot it holds; a further reminder for the appointment is for another slot.
C4_OneReminderPerAppointmentAndSlot ==
    /\ RemindersLogged
    /\ \A j, k \in 1..Len(reminderLog) : j # k => reminderLog[j] # reminderLog[k]

\* an appointment reminded twice, for two slots
C4_Witness ==
    \E j, k \in 1..Len(reminderLog) :
        /\ j < k
        /\ reminderLog[j][1] = reminderLog[k][1]
        /\ reminderLog[j][2] # reminderLog[k][2]

\* C5: a reminder check on a list in which N appointments are unflagged with a
\* slot in the window flags exactly those N, appends exactly N reminder messages,
\* one for each in list order with its client name and slot, and leaves the other
\* appointments as they are.
C5_ReminderBatch ==
    [][checked'.run # checked.run =>
          LET list == checked'.list
              Due(a) == ~a.reminderSent /\ InWindow(a.slot, now')
              due == SelectSeq(list, Due)
              reminders == SelectSeq(Appended, LAMBDA m : m.text.tpl = "reminder")
          IN  /\ TranscriptGrows
              /\ Len(appointments') = Len(list)
              /\ \A i \in 1..Len(list) :
                     appointments'[i] = IF Due(list[i])
                                        THEN [list[i] EXCEPT !.reminderSent = TRUE]
                                        ELSE list[i]
              /\ Len(reminders) = Len(due)
              /\ \A k \in 1..Len(due) :
                     /\ reminders[k].sender = "assistant"
                     /\ reminders[k].language = due[k].language
                     /\ reminders[k].text.name = due[k].clientName
                     /\ reminders[k].text.shown = <<due[k].slot.display[due[k].language]>>]_vars

\* a check that found two appointments due and a third one not
C5_Witness ==
    /\ Len(checked.list) >= 3
    /\ Cardinality({i \in 1..Len(checked.list) :
                       /\ ~checked.list[i].reminderSent
                       /\ InWindow(checked.list[i].slot, checked.at)}) >= 2
    /\ Len(reminderLog) >= 2

\* the store after appointment id got the slot picked, before any reminder check
Moved(id, slot) ==
    [i \in 1..Len(appointments) |->
        IF appointments[i].id = id
        THEN [appointments[i] EXCEPT !.slot = slot, !.reminderSent = InWindow(slot, now)]
        ELSE appointments[i]]

PickedSlot == Handled.rescheduleState.options[Picked(Handled.text)]

\* C6 (as stated): completing a reschedule replaces the target's slot, sets its
\* flag to whether the new slot is within 24 hours, and leaves every other
\* appointment, and the number and order of appointments, unchanged.
C6_RescheduleChangesOnlyTarget ==
    [][\A id \in {appointments[i].id : i \in 1..Len(appointments)} :
           Reschedules(id) => appointments' = Moved(id, PickedSlot)]_vars

\* C6 (amended): ... and leaves every other appointment unchanged, except that the
\* reminder check which follows sets reminderSent on the other appointments that
\* are unflagged with a slot within 24 hours.
C6_RescheduleThenReminders ==
    [][\A id \in {appointments[i].id : i \in 1..Len(appointments)} :
           Reschedules(id) =>
               /\ Len(appointments') = Len(appointments)
               /\ \A i \in 1..Len(appointments) :
                      appointments'[i] =
                          IF appointments[i].id # id
                               /\ ~appointments[i].reminderSent
                               /\ InWindow(appointments[i].slot, now)
                          THEN [appointments[i] EXCEPT !.reminderSent = TRUE]
                          ELSE Moved(id, PickedSlot)[i]]_vars

\* a reschedule was confirmed and a reminder for another appointment followed it
C6_Witness ==
    /\ Len(messages) >= 2
    /\ messages[Len(messages) - 1].text.tpl = "rescheduled"
    /\ Last(messages).text.tpl = "reminder"

\* C7: an input rejected by a flow leaves both flow states and the appointment
\* store as they were and appends exactly one assistant re-prompt.
C7_RejectedInputChangesNothing ==
    [][Firing /\ Rejected(Handled) =>
          /\ bookingState' = bookingState
          /\ rescheduleState' = rescheduleState
          /\ appointments' = appointments
          /\ TranscriptGrows
          /\ Len(Appended) = 1
          /\ Appended[1].sender = "assistant"
          /\ Appended[1].text.tpl \in RePrompts]_vars

\* a flow is active and the last message is a re-prompt
C7_Witness ==
    /\ bookingState # Null \/ rescheduleState # Null
    /\ Last(messages).text.tpl \in RePrompts

\* the language of a text, by its characters
LanguageOf(text) == IF \E i \in 1..Len(text) : text[i] \in 1536..1791 THEN "ar" ELSE "en"

\* C8 (as stated): a re-prompt of the booking flow is in the language of the
\* message that started the flow, the one recorded in BookingState.language.
C8_RepromptInFlowLanguage ==
    [][Firing /\ InBooking(Handled) /\ Rejected(Handled) =>
          Last(messages').language = Handled.bookingState.language]_vars

\* C8 (amended): a re-prompt of the booking flow is in the detected language of
\* the rejected input itself.
C8_RepromptInInputLanguage ==
    [][Firing /\ InBooking(Handled) /\ Rejected(Handled) =>
          Last(messages').language = LanguageOf(Handled.text)]_vars

\* a booking flow whose last re-prompt is not in the flow's language
C8_Witness ==
    /\ bookingState # Null
    /\ Last(messages).text.tpl \in RePrompts
    /\ Last(messages).language # bookingState.language

StageAfter(stage) ==
    CASE stage = "selectSlot" -> "collectService"
      [] stage = "collectService" -> "collectName"
      [] stage = "collectName" -> "collectPhone"
      [] OTHER -> "none"

\* C9 (as stated): a valid input advances the booking flow by exactly one stage of
\* selectSlot, collectService, collectName, collectPhone, and a valid input at
\* collectPhone ends the flow.
C9_ValidInputAdvancesOneStage ==
    [][Firing /\ InBooking(Handled) /\ ~Rejected(Handled) =>
          IF Handled.bookingState.stage = "collectPhone"
          THEN bookingState' = Null
          ELSE /\ bookingState' # Null
               /\ bookingState'.stage = StageAfter(Handled.bookingState.stage)]_vars

\* C9 (amended): ... except that a valid slot selection moves the flow from
\* selectSlot directly to collectName when a service was detected in the message
\* that started the flow; the stage advanced from is the one the flow had when the
\* input was submitted.
C9_ValidInputAdvancesToNextOpenStage ==
    [][Firing /\ InBooking(Handled) /\ ~Rejected(Handled) =>
          IF Handled.bookingState.stage = "collectPhone"
          THEN bookingState' = Null
          ELSE /\ bookingState' # Null
               /\ bookingState'.stage =
                      IF /\ Handled.bookingState.stage = "selectSlot"
                         /\ "service" \in DOMAIN Handled.bookingState.collected
                      THEN "collectName"
                      ELSE StageAfter(Handled.bookingState.stage)]_vars

\* a slot was just accepted and the flow asks for the name, not for the service
C9_Witness ==
    /\ bookingState # Null
    /\ bookingState.stage = "collectName"
    /\ Last(messages).text.tpl = "askName"

\* C10: every slot the generator returns is strictly later than the current time,
\* has an hour in [10, 20), is not on a Sunday and is not in the exclusion set, and
\* the generator never returns more slots than were asked for.
C10_GeneratedSlotsAreBookable ==
    gen.done =>
        /\ Len(gen.result) <= gen.count
        /\ \A i \in 1..Len(gen.result) :
               LET t == gen.result[i].iso[1] * 24 + gen.result[i].iso[2]
               IN  /\ t > now
                   /\ t % 24 >= 10 /\ t % 24 < 20
                   /\ (t \div 24) % 7 # 0
                   /\ gen.result[i].iso \notin gen.booked

\* a call made at an opening hour that filled its count, passed over a booked slot
\* and went past a Sunday
C10_Witness ==
    /\ gen.done
    /\ now % 24 = 10
    /\ gen.count >= 2
    /\ Len(gen.result) = gen.count
    /\ \E b \in gen.booked :
           /\ b[1] * 24 + b[2] > now
           /\ b[1] * 24 + b[2] < gen.result[Len(gen.result)].iso[1] * 24 + gen.result[Len(gen.result)].iso[2]
    /\ gen.result[Len(gen.result)].iso[1] > gen.result[1].iso[1] + 1

\* the option lists on offer: those of the active flows
Offered ==
    (IF bookingState # Null THEN {bookingState.options} ELSE {})
        \cup (IF rescheduleState # Null THEN {rescheduleState.options} ELSE {})

\* C11: in every list of slot options on offer no ISO timestamp occurs twice, and
\* the slots stand in strictly increasing order of time, as the generator emitted
\* them.
C11_OfferedSlotsDistinctAndOrdered ==
    \A options \in Offered :
        \A i, j \in 1..Len(options) :
            i < j => /\ options[i].iso # options[j].iso
                     /\ SlotTime(options[i]) < SlotTime(options[j])

\* a reschedule flow offers a full list that passes over a booked slot and runs
\* into the next day
C11_Witness ==
    /\ rescheduleState # Null
    /\ Len(rescheduleState.options) = SlotCount
    /\ rescheduleState.options[SlotCount].iso[1] > rescheduleState.options[1].iso[1]
    /\ \E i \in 1..Len(appointments) :
           /\ SlotTime(appointments[i].slot) > SlotTime(rescheduleState.options[1])
           /\ SlotTime(appointments[i].slot) < SlotTime(rescheduleState.options[SlotCount])
           /\ \A k \in 1..SlotCount : rescheduleState.options[k].iso # appointments[i].slot.iso

\* the generator finds nothing free next to the slots of list
NothingFree(list) ==
    Len(generateSlotOptions(SlotCount, {list[i].slot.iso : i \in 1..Len(list)})) = 0

\* the appointments of list other than its n-th
OthersThan(list, n) == SelectSeq(list, LAMBDA a : a.id # list[n].id)

\* C12: when no slot is available no flow is left active: a booking request that
\* finds zero slots appends one 'fully booked' message and leaves bookingState
\* null, a reschedule whose appointment selection finds zero replacement slots
\* appends one apology message and sets rescheduleState to null; in both cases
\* the appointment store is unchanged.
C12_NoSlotsNoFlow ==
    [][Firing =>
        LET p == Handled
        IN  /\ ( /\ p.bookingState = Null /\ p.rescheduleState = Null
                 /\ detectIntent(p.text) = "booking"
                 /\ NothingFree(p.appointments) )
                => /\ Appended = <<[sender |-> "assistant", text |-> Plain("fullyBooked"),
                                    language |-> p.language]>>
                   /\ bookingState' = Null
                   /\ rescheduleState' = rescheduleState
                   /\ appointments' = appointments
            /\ ( /\ InReschedule(p)
                 /\ p.rescheduleState.stage = "selectAppointment"
                 /\ ~RejectedByReschedule(p.rescheduleState, p.appointments, p.text)
                 /\ NothingFree(OthersThan(p.appointments, parseInt(p.text).value)) )
                => /\ Appended = <<[sender |-> "assistant", text |-> Plain("noFreeSlots"),
                                    language |-> p.language]>>
                   /\ rescheduleState' = Null
                   /\ bookingState' = bookingState
                   /\ appointments' = appointments
    ]_vars

\* a booking request was told the shop is fully booked, and later a reschedule
\* ended with the apology, with no flow active after it
C12_Witness ==
    /\ Last(messages).text.tpl = "noFreeSlots"
    /\ \E i \in 1..Len(messages) : messages[i].text.tpl = "fullyBooked"
    /\ bookingState = Null
    /\ rescheduleState = Null
    /\ pending = <<>>

\* C13: in every reachable state no two appointments in the store hold the same
\* slot timestamp, also when a further message is submitted before the deferred
\* processing of the previous one has run.
C13_NoSlotHeldTwice ==
    \A i, j \in 1..Len(appointments) :
        i # j => appointments[i].slot.iso # appointments[j].slot.iso

\* C14: in the booking selectSlot stage a valid numeric selection moves the flow
\* to collectService when no service was pre-detected and directly to collectName
\* when one was; in both cases the selected slot is the option at the given
\* 1-based index of the offered list, and a pre-detected service is kept.
C14_SelectSlotTransition ==
    [][( /\ Firing
         /\ InBooking(Handled)
         /\ Handled.bookingState.stage = "selectSlot"
         /\ Picks(Handled.text, Len(Handled.bookingState.options)) )
        => LET b == Handled.bookingState
               service == "service" \in DOMAIN b.collected
           IN  /\ bookingState' # Null
               /\ bookingState'.stage = IF service THEN "collectName" ELSE "collectService"
               /\ bookingState'.options = b.options
               /\ bookingState'.collected.slot = b.options[Picked(Handled.text)]
               /\ ("service" \in DOMAIN bookingState'.collected) = service
               /\ service => bookingState'.collected.service = b.collected.service
    ]_vars

\* after a booking whose service came with the request and whose fifth slot led
\* straight to the name, a flow without a service is asked for one after its
\* fifth slot
C14_Witness ==
    /\ bookingState # Null
    /\ bookingState.stage = "collectService"
    /\ DOMAIN bookingState.collected = {"slot"}
    /\ bookingState.collected.slot = bookingState.options[5]
    /\ Len(appointments) = 1
    /\ appointments[1].service = "haircut"
    /\ Len(SelectSeq(messages, LAMBDA m : m.text.tpl = "askService")) = 1
    /\ Len(SelectSeq(messages, LAMBDA m : m.text.tpl = "askName")) = 1

\* the place of a stage in the order selectSlot < collectService < collectName <
\* collectPhone
StageRank(stage) ==
    CASE stage = "selectSlot" -> 1
      [] stage = "collectService" -> 2
      [] stage = "collectName" -> 3
      [] stage = "collectPhone" -> 4

\* C15: within one booking flow the stage never moves backward: each change of
\* an active bookingState's stage goes to a strictly later stage, also when
\* several submissions are pending at once and are processed in submission order.
C15_StageNeverMovesBack ==
    [][( /\ bookingState # Null
         /\ bookingState' # Null
         /\ bookingState'.stage # bookingState.stage )
        => StageRank(bookingState'.stage) > StageRank(bookingState.stage)
    ]_vars

\* what the booking flow says, and the reminders that may follow a booking
BookingFlowSays == {"pickSlotAgain", "askService", "askName", "pickServiceAgain",
                    "askNameForService", "nameAgain", "askPhone", "phoneAgain",
                    "confirmation", "expectReminder", "reminder"}

\* the callback handles a valid phone number in stage collectPhone
AcceptsPhone ==
    /\ Firing
    /\ InBooking(Handled)
    /\ Handled.bookingState.stage = "collectPhone"
    /\ ~RejectedByBooking(Handled.bookingState, Handled.text)

\* the callback handles the choice of a new slot, or the choice of an
\* appointment for which no replacement slot is free
EndsReschedule ==
    /\ Firing
    /\ InReschedule(Handled)
    /\ ~RejectedByReschedule(Handled.rescheduleState, Handled.appointments, Handled.text)
    /\ \/ Handled.rescheduleState.stage = "selectSlot"
       \/ /\ Handled.rescheduleState.stage = "selectAppointment"
          /\ NothingFree(OthersThan(Handled.appointments, parseInt(Handled.text).value))

\* C16: a submission made while a booking flow is active is handled by the
\* booking flow, with no intent detection (no static response, no reschedule
\* start, no new booking start); a booking flow becomes inactive only by accepting
\* a valid phone number at collectPhone, and a reschedule flow only by completing
\* the slot change or by the no-slots dead-end.
C16_NoWayOutOfAFlow ==
    [][/\ (Firing /\ InBooking(Handled))
           => /\ \A i \in 1..Len(Appended) : Appended[i].text.tpl \in BookingFlowSays
              /\ rescheduleState' = rescheduleState
              /\ bookingState' # Null => bookingState'.options = Handled.bookingState.options
              /\ bookingState' = Null => (bookingState = Null \/ AcceptsPhone)
       /\ (bookingState # Null /\ bookingState' = Null) => AcceptsPhone
       /\ (rescheduleState # Null /\ rescheduleState' = Null) => EndsReschedule
    ]_vars

\* a second booking request was made while the one booking flow was active: it
\* started nothing and was answered by the flow, which ended with the phone number
C16_Witness ==
    /\ bookingState = Null
    /\ rescheduleState = Null
    /\ Len(appointments) = 1
    /\ Len(SelectSeq(messages, LAMBDA m : m.text.tpl = "slotIntro")) = 1
    /\ Len(SelectSeq(messages, LAMBDA m : m.sender = "user" /\ m.text.chars = TxtBookAr)) >= 1
    /\ Len(SelectSeq(messages, LAMBDA m : m.sender = "user" /\ m.text.chars = TxtBookHaircut)) = 1
    /\ \E i \in 1..Len(messages) : messages[i].text.tpl \in {"pickSlotAgain", "nameAgain"}
    /\ Last(messages).text.tpl \in {"confirmation", "expectReminder"}

\* the reminders logged in this step
NewlyLogged == SubSeq(reminderLog', Len(reminderLog) + 1, Len(reminderLog'))

\* C17: an appointment whose slot is within the 24-hour window at the moment it is
\* booked is created with reminderSent = true, and the reminder check that
\* follows the booking appends no reminder message for it.
C17_DueAtBookingIsPreset ==
    [][Len(appointments') > Len(appointments) =>
        LET new == Last(appointments')
        IN  InWindow(new.slot, now) =>
                /\ new.reminderSent
                /\ \A i \in 1..Len(NewlyLogged) : NewlyLogged[i][1] # new.id
                /\ \A i \in 1..Len(Appended) :
                       Appended[i].text.tpl = "reminder" =>
                           \E k \in 1..Len(appointments) :
                               /\ Appended[i].text.name = appointments[k].clientName
                               /\ Appended[i].text.shown =
                                      <<appointments[k].slot.display[appointments[k].language]>>
    ]_vars

\* a booking made less than a day before its slot, while the same reminder check
\* reminded an earlier appointment
C17_Witness ==
    /\ Len(appointments) >= 2
    /\ Last(appointments).reminderSent
    /\ InWindow(Last(appointments).slot, now)
    /\ checked.at = now
    /\ Len(checked.list) = Len(appointments)
    /\ \A i \in 1..Len(reminderLog) : reminderLog[i][1] # Last(appointments).id
    /\ Last(messages).text.tpl = "reminder"
    /\ Len(SelectSeq(messages, LAMBDA m : m.text.tpl = "expectReminder")) = Len(appointments) - 1

\* C18: the reminder check runs only when the appointment list changes: a step
\* in which only time advances changes no reminderSent flag and appends no
\* message, even when an unreminded appointment's slot has entered the 24-hour
\* window; an appointment is reminded only in a step that sets the appointment
\* list, and only if its slot is then still ahead, within 24 hours.
C18_RemindersOnlyOnListChange ==
    [][/\ now' # now => (appointments' = appointments /\ messages' = messages)
       /\ checked' = checked =>
              /\ appointments' = appointments
              /\ reminderLog' = reminderLog
              /\ \A i \in 1..Len(Appended) : Appended[i].text.tpl # "reminder"
       /\ checked' # checked =>
              /\ checked'.run = checked.run + 1
              /\ Len(SelectSeq(Appended, LAMBDA m : m.text.tpl = "reminder")) = Len(NewlyLogged)
              /\ \A i \in 1..Len(NewlyLogged) :
                     LET due == NewlyLogged[i][2][1] * 24 + NewlyLogged[i][2][2]
                     IN  due - now > 0 /\ due - now <= 24
    ]_vars

\* time went by until the slots of two unreminded appointments had passed; the
\* booking made after that ran the check, and they were never reminded
C18_Witness ==
    /\ Len(appointments) = 3
    /\ checked.at = now
    /\ Len(checked.list) = 3
    /\ reminderLog = <<>>
    /\ \A i \in 1..2 : /\ ~appointments[i].reminderSent
                        /\ SlotTime(appointments[i].slot) < now
    /\ \A i \in 1..Len(messages) : messages[i].text.tpl # "reminder"

\* the callback handles the choice of an appointment to move, by its number
PicksAppointment ==
    /\ Firing
    /\ InReschedule(Handled)
    /\ Handled.rescheduleState.stage = "selectAppointment"
    /\ ~RejectedByReschedule(Handled.rescheduleState, Handled.appointments, Handled.text)
Target == Handled.appointments[parseInt(Handled.text).value]

\* C19: when an appointment is selected for rescheduling, the replacement slots
\* offered (at most 6) contain no slot currently held by any other appointment,
\* while the target appointment's own current slot is not excluded: it is offered
\* whenever it is still ahead and not later than the last slot offered.
C19_ReplacementSlotsFree ==
    [][(PicksAppointment /\ rescheduleState' # Null) =>
        LET offered == rescheduleState'.options
        IN  /\ rescheduleState'.stage = "selectSlot"
            /\ rescheduleState'.targetAppointment = Target
            /\ Len(offered) >= 1 /\ Len(offered) <= 6
            /\ \A k \in 1..Len(offered), i \in 1..Len(appointments) :
                   appointments[i].id # Target.id => offered[k].iso # appointments[i].slot.iso
            /\ ( /\ SlotTime(Target.slot) > now
                 /\ SlotTime(Target.slot) <= SlotTime(Last(offered)) )
                => \E k \in 1..Len(offered) : offered[k].iso = Target.slot.iso
    ]_vars

\* the variables of the loop after n passes through its body, whatever its
\* condition (followed no further than one pass beyond the cap)
RECURSIVE Passes(_, _, _)
Passes(booked, s, n) ==
    IF n = 0 \/ s.attempts > MaxAttempts THEN s
    ELSE IF n = 1 THEN slotStep(booked, s)
    ELSE Passes(booked, Passes(booked, s, n \div 2), n - n \div 2)

LoopStart == [cursor |-> atOpening(now), options |-> <<>>, attempts |-> 0]

\* C20: the slot generator ends after at most 500 passes of its loop; it stops as
\* soon as the requested count is collected, and when the cap is reached first
\* it returns the fewer slots found so far (possibly none).
C20_GeneratorStopsAtCountOrCap ==
    gen.done =>
        /\ gen.attempts <= 500
        /\ gen.result = Passes(gen.booked, LoopStart, gen.attempts).options
        /\ Len(gen.result) <= gen.count
        /\ gen.attempts > 0 =>
               Len(Passes(gen.booked, LoopStart, gen.attempts - 1).options) < gen.count
        /\ Len(gen.result) < gen.count => gen.attempts = 500

\* a call that came to the cap with one slot less than it was asked for
C20_Witness ==
    /\ gen.done
    /\ gen.attempts = 500
    /\ Len(gen.result) >= 1
    /\ Len(gen.result) + 1 = gen.count

-----------------------------------------------------------------------------
\* the groups of keywords in the order of the claim; the first is matched on whole
\* words unless the keyword is a phrase
IntentOrder == <<"greeting", "booking", "reschedule", "hours", "services", "advice",
                 "thanks", "reminder", "smalltalk">>
KeywordsOf(intent) ==
    CASE intent = "greeting" -> GreetingPhrases
      [] intent = "booking" -> BookingWords
      [] intent = "reschedule" -> RescheduleWords
      [] intent = "hours" -> HoursWords
      [] intent = "services" -> ServicesWords
      [] intent = "advice" -> AdviceWords
      [] intent = "thanks" -> ThanksWords
      [] intent = "reminder" -> ReminderWords
      [] intent = "smalltalk" -> SmalltalkWords
GroupMatches(k, text) ==
    \/ \E w \in KeywordsOf(IntentOrder[k]) : includes(toLowerCase(trim(text)), w)
    \/ k = 1 /\ \E w \in GreetingWords : matchesWord(toLowerCase(trim(text)), w)
MatchingGroups(text) == {k \in 1..Len(IntentOrder) : GroupMatches(k, text)}
FirstGroup(text) ==
    IF MatchingGroups(text) = {} THEN "unknown"
    ELSE IntentOrder[CHOOSE k \in MatchingGroups(text) : \A j \in MatchingGroups(text) : k <= j]

\* what the action of each intent says
SaidFor(intent) ==
    CASE intent = "booking" -> {"slotIntro", "fullyBooked"}
      [] intent = "reschedule" -> {"whichAppointment", "noBookings"}
      [] intent = "hours" -> {"hoursOpen", "hoursClosed"}
      [] intent = "reminder" -> {"reminderStatus", "noReminders"}
      [] OTHER -> {intent}

\* C21: a message processed outside any flow gets the intent of the first group,
\* in the order greeting, booking, reschedule, hours, services, advice, thanks,
\* reminder, smalltalk, whose keywords its trimmed lower-cased text holds, and
\* unknown if none does; the action of that intent, and of no other, is taken.
C21_FirstMatchingGroupWins ==
    [][Firing /\ Handled.bookingState = Null /\ Handled.rescheduleState = Null
       => LET intent == FirstGroup(Handled.text)
          IN  /\ Len(Appended) = 1
              /\ Appended[1].sender = "assistant"
              /\ Appended[1].text.tpl \in SaidFor(intent)
              /\ intent # "booking" => bookingState' = bookingState
              /\ intent # "reschedule" => rescheduleState' = rescheduleState]_vars

\* a message with the keywords of greeting and booking has been greeted, one with
\* those of booking and reschedule has started a booking
C21_Witness ==
    /\ script = <<>> /\ pending = <<>>
    /\ Len(messages) = 5
    /\ messages[2].text.chars = TxtHiBook
    /\ messages[3].text.tpl = "greeting"
    /\ messages[4].text.chars \in {TxtChangeBooking, TxtReschedule}
    /\ messages[5].text.tpl = "slotIntro"
    /\ bookingState # Null /\ rescheduleState = Null

-----------------------------------------------------------------------------
\* C22: a message processed outside any flow with one of the intents greeting,
\* hours, services, advice, thanks, reminder, smalltalk and unknown appends exactly
\* one assistant message and leaves the appointment list, bookingState and
\* rescheduleState as they are.
C22_AnsweringChangesNoState ==
    [][Firing /\ Handled.bookingState = Null /\ Handled.rescheduleState = Null
              /\ FirstGroup(Handled.text) \notin {"booking", "reschedule"}
       => /\ TranscriptGrows
          /\ Len(Appended) = 1
          /\ Appended[1].sender = "assistant"
          /\ appointments' = appointments
          /\ bookingState' = bookingState
          /\ rescheduleState' = rescheduleState]_vars

\* asked about reminders when an appointment has come due and no reminder has
\* been sent yet, the assistant lists the appointment and sends none
C22_Witness ==
    /\ pending = <<>> /\ script = <<>>
    /\ Last(messages).text.tpl = "reminderStatus"
    /\ Len(appointments) = 1
    /\ InWindow(appointments[1].slot, now)
    /\ ~appointments[1].reminderSent
    /\ reminderLog = <<>>

-----------------------------------------------------------------------------
\* what a booking flow state has collected by the stage it is in
Defined(b, field) ==
    /\ has(b.collected, field)
    /\ CASE field = "slot" -> b.collected.slot # Undefined
         [] field = "service" -> b.collected.service \in {SERVICES[i] : i \in 1..Len(SERVICES)}
         [] field = "clientName" -> b.collected.clientName # <<>>
CollectedByStage(b) ==
    b # Null =>
        /\ b.stage = "collectName" => Defined(b, "slot") /\ Defined(b, "service")
        /\ b.stage = "collectPhone" =>
               Defined(b, "slot") /\ Defined(b, "service") /\ Defined(b, "clientName")

\* C24: a booking flow in stage collectPhone has collected a slot, a service and a
\* client name, and one in stage collectName a slot and a service, so that the
\* commit never reads a field that is not there; this holds of the state and of
\* the state every outstanding callback will see, overlapping submissions included.
C24_CollectedFieldsDefined ==
    /\ CollectedByStage(bookingState)
    /\ \A i \in 1..Len(pending) : CollectedByStage(pending[i].bookingState)

\* two phone numbers sent in quick succession to a flow that asked for the service
\* after the slot: both callbacks will see the flow in collectPhone
C24_Witness ==
    /\ Len(pending) = 2
    /\ bookingState # Null /\ bookingState.stage = "collectPhone"
    /\ \A i \in 1..2 : /\ pending[i].bookingState = bookingState
                        /\ Len(stripPhone(pending[i].text)) >= 8
    /\ \E i \in 1..Len(messages) : messages[i].text.tpl = "askNameForService"

-----------------------------------------------------------------------------
\* user messages in the transcript, and how many of them have been processed
UserCount == Len(SelectSeq(messages, LAMBDA m : m.sender = "user"))
Processed == UserCount - Len(pending)

\* a submission: its user message is appended and its callback is queued behind
\* the outstanding ones, which stay as they are
Submitted ==
    /\ Len(pending') = Len(pending) + 1
    /\ SubSeq(pending', 1, Len(pending)) = pending
    /\ Last(pending').text # <<>>
    /\ Len(Appended) = 1 /\ TranscriptGrows
    /\ Appended[1].sender = "user"
    /\ Appended[1].text.chars = Last(pending').text
\* the oldest callback runs, and says something
Answered ==
    /\ Firing
    /\ TranscriptGrows
    /\ Len(Appended) >= 1
    /\ \A i \in 1..Len(Appended) : Appended[i].sender = "assistant"
\* every user message has been processed and has an assistant message after it
AllAnswered ==
    /\ Processed = UserCount
    /\ \A i \in 1..Len(messages) :
          messages[i].sender = "user" =>
              \E j \in (i + 1)..Len(messages) : messages[j].sender = "assistant"

\* C23: a submission appends its user message at once and queues one callback; the
\* callback is removed from the queue only by running, which it does once, and it
\* then appends at least one assistant message; a later submission takes nothing
\* from the queue.  With the timers firing, every user message is eventually
\* processed and followed by an assistant message: the transcript only grows, so
\* this is to say that time and again all the messages sent so far have been.
C23_EverySubmissionAnswered ==
    /\ [][/\ TranscriptGrows
          /\ pending' # pending => Submitted \/ Answered
          /\ (\E i \in 1..Len(Appended) : Appended[i].sender = "user") => Submitted]_vars
    /\ []<>AllAnswered

\* three messages sent while the first was waiting to be processed have all been
\* answered: the second and third submissions were made with a callback outstanding
C23_Witness ==
    /\ pending = <<>>
    /\ UserCount >= 2
    /\ \E i \in 2..Len(messages) - 2 :
          /\ messages[i].sender = "user"
          /\ messages[i + 1].sender = "user"
    /\ Len(SelectSeq(messages, LAMBDA m : m.sender = "assistant")) > UserCount

-----------------------------------------------------------------------------
\* C25: the language of an appointment is that of the message that gave the phone
\* number (English unless it has an Arabic character), whatever the language the
\* flow was started in; no later step, a reschedule included, changes it; and a
\* reminder sent for the appointment is in that language.
C25_AppointmentLanguage ==
    [][/\ Len(appointments') >= Len(appointments)
       /\ \A i \in 1..Len(appointments) :
             /\ appointments'[i].id = appointments[i].id
             /\ appointments'[i].language = appointments[i].language
       /\ Len(appointments') > Len(appointments) =>
             /\ Firing
             /\ Len(appointments') = Len(appointments) + 1
             /\ Last(appointments').language = LanguageOf(Handled.text)
       /\ LET reminders == SelectSeq(Appended, LAMBDA m : m.text.tpl = "reminder")
          IN  /\ Len(reminders) = Len(NewlyLogged)
              /\ \A k \in 1..Len(reminders) :
                    \E i \in 1..Len(appointments') :
                        /\ appointments'[i].id = NewlyLogged[k][1]
                        /\ reminders[k].language = appointments'[i].language
                        /\ reminders[k].text.shown =
                               <<appointments'[i].slot.display[appointments'[i].language]>>
                        /\ reminders[k].text.shown[1].locale = appointments'[i].language]_vars

\* an appointment asked for in English is stored as Arabic, one asked for in Arabic
\* as English; one of them has been moved, and the reminder of the first was in Arabic
C25_Witness ==
    /\ pending = <<>> /\ script = <<>>
    /\ Len(appointments) = 2
    /\ messages[2].language = "en" /\ appointments[1].language = "ar"
    /\ appointments[2].language = "en"
    /\ \E i \in 1..Len(messages) :
          /\ messages[i].text.chars = TxtBookAr
          /\ messages[i + 1].text.tpl = "slotIntro"
    /\ \E i \in 1..Len(messages) : messages[i].text.tpl = "rescheduled"
    /\ \E k \in 1..Len(reminderLog) : reminderLog[k][1] = appointments[1].id
    /\ \E i \in 1..Len(messages) :
          /\ messages[i].text.tpl = "reminder"
          /\ messages[i].text.name = appointments[1].clientName
          /\ messages[i].language = "ar"


====
